---- MODULE Spec2Model ----
(***************************************************************************)
(* A model of the asset-preparation scripts under src/kernel/media:        *)
(*   generate_image_assets.py  binary file -> C array + length constant    *)
(*   convert_to_baseline.py    in-place re-encoding to baseline JPEG       *)
(*   create_baseline_jpegs.py  synthetic gradient / pattern images         *)
(* Every script is a sequential program; each gets a specification of its  *)
(* own over the shared variables (the variables of the other scripts stay  *)
(* at their idle values).                                                  *)
(***************************************************************************)
EXTENDS Integers, Sequences, FiniteSets, TLC

VARIABLES
  \* generate_image_assets.py: one call of generate_header
  gpc,        \* "start" | "done"
  data,       \* the bytes of the input file (f.read())
  var_name,   \* the variable name handed to generate_header
  out,        \* the lines written to the output file
  \* generate_image_assets.py: main
  mpc,        \* "loop" | "exited"
  exists,     \* the set of asset indices whose source file exists
  midx,       \* index of the next entry of `images` the loop handles
  outputs,    \* asset index -> the declaration file written, or NoFile
  warnings,   \* asset indices reported "not found"
  exitStatus, \* process exit status once main has returned, else NoStatus
  \* convert_to_baseline.py / save_baseline_jpeg
  npc,        \* "loop" | "exited" | "crashed"
  files,      \* image index -> the file at img_path
  nidx,       \* index of the next image of the loop
  written,    \* log of the img.save calls so far: who wrote, from what, what
  handled,    \* image indices the loop has dealt with (converted or warned)
  nexit,      \* exit status of the script
  chroma_mode,\* the chroma mode the caller asks for
  \* create_baseline_jpegs.py: the generators
  cpc,        \* "start" | "done"
  width, height, color1, color2, direction, colors,
  result      \* the value create_*_image returns, or the exception it raises

vars == <<gpc, data, var_name, out,
          mpc, exists, midx, outputs, warnings, exitStatus,
          npc, files, nidx, written, handled, nexit, chroma_mode,
          cpc, width, height, color1, color2, direction, colors, result>>

embedVars == <<gpc, data, var_name, out>>
mainVars  == <<mpc, exists, midx, outputs, warnings, exitStatus>>
normVars  == <<npc, files, nidx, written, handled, nexit, chroma_mode>>
genVars   == <<cpc, width, height, color1, color2, direction, colors, result>>

\* no file at a path: every file the scripts write has at least one line
NoFile   == <<>>
NoStatus == "running"

EmbedIdle == gpc = "idle" /\ data = <<>> /\ var_name = "" /\ out = <<>>
MainIdle  == /\ mpc = "idle" /\ exists = {} /\ midx = 0 /\ outputs = <<>>
             /\ warnings = {} /\ exitStatus = NoStatus
NormIdle  == /\ npc = "idle" /\ files = <<>> /\ nidx = 0 /\ written = <<>>
             /\ handled = {} /\ nexit = NoStatus /\ chroma_mode = ""
GenIdle   == /\ cpc = "idle" /\ width = 0 /\ height = 0 /\ color1 = <<>>
             /\ color2 = <<>> /\ direction = "" /\ colors = <<>> /\ result = <<>>

Min(a, b) == IF a < b THEN a ELSE b

(***************************************************************************)
(* generate_image_assets.py: generate_header                               *)
(***************************************************************************)

\* Bounds of the inputs of generate_header
MaxDataLen == 35
MaxRowWidth == 18

HexDigits == <<"0", "1", "2", "3", "4", "5", "6", "7",
               "8", "9", "a", "b", "c", "d", "e", "f">>

\* format(b, 'x'): the hexadecimal digits of b, most significant first, no padding
RECURSIVE HexStr(_)
HexStr(b) == IF b < 16 THEN <<HexDigits[b + 1]>>
             ELSE HexStr(b \div 16) \o <<HexDigits[(b % 16) + 1]>>

\* the '02' of the format spec: zero-fill on the left to a width of at least 2
RECURSIVE ZeroFill(_, _)
ZeroFill(s, w) == IF Len(s) < w THEN ZeroFill(<<"0">> \o s, w) ELSE s

ByteLiteralNoPad(b) == <<"0", "x">> \o HexStr(b)
\* f'0x{b:02x}'
ByteLiteral(b) == <<"0", "x">> \o ZeroFill(HexStr(b), 2)

\* data[i:i+16] with a 0-based i: Python clips the slice at len(data)
Slice(s, i, n) == SubSeq(s, i + 1, Min(i + n, Len(s)))

RowLine(chunk) == [kind |-> "row", lits |-> [j \in 1..Len(chunk) |-> ByteLiteral(chunk[j])]]

\* for i in range(0, len(data), w): one line per chunk
RECURSIVE RowsFrom(_, _, _)
RowsFrom(d, i, w) == IF i >= Len(d) THEN <<>>
                     ELSE <<RowLine(Slice(d, i, w))>> \o RowsFrom(d, i + w, w)

\* a slice one byte short of the stride: data[i:i+w-1]
RECURSIVE RowsShortSlice(_, _, _)
RowsShortSlice(d, i, w) ==
  IF i >= Len(d) THEN <<>>
  ELSE <<RowLine(Slice(d, i, IF w > 1 THEN w - 1 ELSE w))>> \o RowsShortSlice(d, i + w, w)

RowsShort(d, w) == RowsShortSlice(d, 0, w)
Rows(d, w) == RowsFrom(d, 0, w)

LenLineOffByOne(d, name) == [kind |-> "len", name |-> <<name, "_len">>, value |-> Len(d) - (Len(d) % 16)]
LenLine(d, name) == [kind |-> "len", name |-> <<name, "_len">>, value |-> Len(d)]

\* the text generate_header writes, line by line, for a row width of w
HeaderText(d, name, origin, w) ==
  <<[kind |-> "comment", origin |-> origin],
    [kind |-> "open", name |-> name]>>
  \o Rows(d, w)
  \o <<[kind |-> "close"], LenLine(d, name)>>

RowWidth == 16

GenerateHeaderText(d, name, origin) == HeaderText(d, name, origin, RowWidth)

\* Input files: length L, byte j (0-based) is (a * j + b) mod 256
ByteGens == {<<1, 0>>, <<37, 250>>, <<0, 255>>, <<0, 7>>}
GenBytes(L, g) == [j \in 1..L |-> (g[1] * (j - 1) + g[2]) % 256]

EmbedInit ==
  /\ gpc = "start"
  /\ \E L \in 0..MaxDataLen, g \in ByteGens : data = GenBytes(L, g)
  /\ var_name \in {"bootstrap_square_jpg"}
  /\ out = <<>>
  /\ MainIdle /\ NormIdle /\ GenIdle

\* generate_header(input_file, output_file, var_name)
GenerateHeader ==
  /\ gpc = "start"
  /\ out' = GenerateHeaderText(data, var_name, "square.jpg")
  /\ gpc' = "done"
  /\ UNCHANGED <<data, var_name, mainVars, normVars, genVars>>

EmbedNext == GenerateHeader

SpecEmbed == EmbedInit /\ [][EmbedNext]_vars

\* Reading a declaration back, as a C compiler reads it
HexVal(c) == CHOOSE n \in 0..15 : HexDigits[n + 1] = c
RECURSIVE HexNum(_)
HexNum(ds) == IF ds = <<>> THEN 0
              ELSE 16 * HexNum(SubSeq(ds, 1, Len(ds) - 1)) + HexVal(ds[Len(ds)])
ParseLiteral(lit) == HexNum(SubSeq(lit, 3, Len(lit)))
RowsOf(text) == SelectSeq(text, LAMBDA l : l.kind = "row")
RECURSIVE ArrayBytes(_)
ArrayBytes(rows) ==
  IF rows = <<>> THEN <<>>
  ELSE [j \in 1..Len(rows[1].lits) |-> ParseLiteral(rows[1].lits[j])]
       \o ArrayBytes(Tail(rows))
LenDecls(text) == SelectSeq(text, LAMBDA l : l.kind = "len")
IsHexDigit(c) == \E n \in 1..16 : HexDigits[n] = c

\* C1: the declaration holds exactly one constant <var_name>_len, and its value
\* is the number of bytes read from the input, which is also the number of
\* byte literals in the array (empty input and lengths that are not a
\* multiple of 16 included).
C1_LengthConstant ==
  gpc = "done" =>
    /\ Len(LenDecls(out)) = 1
    /\ LenDecls(out)[1].name = <<var_name, "_len">>
    /\ LenDecls(out)[1].value = Len(data)
    /\ LenDecls(out)[1].value = Len(ArrayBytes(RowsOf(out)))

C1_Witness ==
  gpc = "done" /\ Len(data) > 16 /\ Len(data) % 16 # 0 /\ LenDecls(out)[1].value = Len(data)

\* C2: read row by row, the literals give back the input bytes in order; every
\* row has 16 literals but the last, which has 1 to 16; every literal is "0x"
\* and two hexadecimal digits; any other row width gives the same bytes and
\* the same length.
C2_RowsRoundTrip ==
  gpc = "done" =>
    LET rows == RowsOf(out) IN
    /\ ArrayBytes(rows) = data
    /\ \A r \in 1..Len(rows) :
         /\ r < Len(rows) => Len(rows[r].lits) = 16
         /\ Len(rows[r].lits) \in 1..16
         /\ \A j \in 1..Len(rows[r].lits) :
              LET lit == rows[r].lits[j] IN
              /\ Len(lit) = 4 /\ lit[1] = "0" /\ lit[2] = "x"
              /\ IsHexDigit(lit[3]) /\ IsHexDigit(lit[4])
    /\ \A w \in 1..MaxRowWidth :
         LET other == HeaderText(data, var_name, "square.jpg", w) IN
         /\ ArrayBytes(RowsOf(other)) = ArrayBytes(rows)
         /\ LenDecls(other)[1].value = LenDecls(out)[1].value

C2_Witness ==
  /\ gpc = "done" /\ Len(data) = 35 /\ Len(RowsOf(out)) = 3
  /\ Len(RowsOf(out)[3].lits) = 3 /\ data[1] # data[2]
  /\ ArrayBytes(RowsOf(out)) = data

(***************************************************************************)
(* generate_image_assets.py: main                                          *)
(***************************************************************************)

Images == << <<"landscape.jpg", "bootstrap_landscape_jpg">>,
             <<"portrait.jpg",  "bootstrap_portrait_jpg">>,
             <<"square.jpg",    "bootstrap_square_jpg">>,
             <<"wallpaper.jpg", "bootstrap_wallpaper_jpg">>,
             <<"nature.jpg",    "bootstrap_nature_jpg">>,
             <<"city.jpg",      "bootstrap_city_jpg">>,
             <<"httpbin.jpg",   "bootstrap_httpbin_jpg">> >>

Assets == 1..Len(Images)

\* the bytes of the i-th source file when it exists (lengths 0, 6, ..., 36)
AssetBytes(i) == GenBytes(6 * (i - 1), <<37, 250 + i>>)

MainInit ==
  /\ mpc = "loop"
  /\ exists \in SUBSET Assets
  /\ midx = 1
  /\ outputs = [i \in Assets |-> NoFile]
  /\ warnings = {}
  /\ exitStatus = NoStatus
  /\ EmbedIdle /\ NormIdle /\ GenIdle

\* a loop body that gives up at the first missing file
MainIterAbort ==
  /\ mpc = "loop" /\ midx <= Len(Images)
  /\ IF midx \in exists
       THEN /\ outputs' = [outputs EXCEPT ![midx] =
                             GenerateHeaderText(AssetBytes(midx), Images[midx][2], Images[midx][1])]
            /\ midx' = midx + 1
            /\ UNCHANGED warnings
       ELSE /\ warnings' = warnings \cup {midx}
            /\ midx' = Len(Images) + 1
            /\ UNCHANGED outputs
  /\ UNCHANGED <<mpc, exists, exitStatus, embedVars, normVars, genVars>>

\* one iteration of `for img_file, var_name in images`
MainIter ==
  /\ mpc = "loop" /\ midx <= Len(Images)
  /\ IF midx \in exists
       THEN /\ outputs' = [outputs EXCEPT ![midx] =
                             GenerateHeaderText(AssetBytes(midx), Images[midx][2], Images[midx][1])]
            /\ UNCHANGED warnings
       ELSE /\ warnings' = warnings \cup {midx}
            /\ UNCHANGED outputs
  /\ midx' = midx + 1
  /\ UNCHANGED <<mpc, exists, exitStatus, embedVars, normVars, genVars>>

\* main() returns and the interpreter exits: nothing sets a status, so it is 0 (success)
MainReturn ==
  /\ mpc = "loop" /\ midx > Len(Images)
  /\ mpc' = "exited"
  /\ exitStatus' = "success"
  /\ UNCHANGED <<exists, midx, outputs, warnings, embedVars, normVars, genVars>>

MainNext == MainIter \/ MainReturn

SpecBatch == MainInit /\ [][MainNext]_vars

\* C3: when main has gone through the list, every asset whose source is
\* missing was reported and has no declaration, and every asset whose source
\* exists has its declaration, wherever it sits relative to the missing ones.
C3_MissingSkippedOthersWritten ==
  mpc = "exited" =>
    \A i \in Assets :
      IF i \in exists
        THEN /\ outputs[i] # NoFile
             /\ LenDecls(outputs[i])[1].value = Len(AssetBytes(i))
             /\ i \notin warnings
        ELSE outputs[i] = NoFile /\ i \in warnings

C3_Witness ==
  /\ mpc = "exited" /\ 1 \in exists /\ 2 \notin exists /\ 3 \in exists
  /\ outputs[1] # NoFile /\ outputs[2] = NoFile /\ outputs[3] # NoFile
  /\ 2 \in warnings

\* C5: the exit status of a batch run signals failure exactly when at least
\* one asset was skipped or failed.
C5_ExitStatusReflectsFailure ==
  mpc = "exited" => (exitStatus = "failure" <=> warnings # {})

(***************************************************************************)
(* convert_to_baseline.py and create_baseline_jpegs.py: save_baseline_jpeg *)
(***************************************************************************)

NormImages == <<"landscape.jpg", "portrait.jpg", "square.jpg", "wallpaper.jpg">>
NormIdx == 1..Len(NormImages)

ChromaModes == {"4:4:4", "4:2:0"}
Modes == {"RGB", "RGBA", "P"}
NoExif == <<>>

\* What may sit at img_path before the script runs
Missing     == [kind |-> "missing"]
Undecodable == [kind |-> "undecodable"]   \* exists; Image.open raises
Truncated   == [kind |-> "truncated"]     \* Image.open reads the header; load() raises
JpegFile(mode, prog, opt, exif, sub) ==
  [kind |-> "image", mode |-> mode, progressive |-> prog, optimized |-> opt,
   exif |-> exif, subsampling |-> sub]
FileKinds ==
  {Missing, Undecodable, Truncated,
   JpegFile("RGB", FALSE, FALSE, NoExif, "4:4:4"),
   JpegFile("RGB", TRUE, TRUE, <<"Exif">>, "4:2:0"),
   JpegFile("RGBA", FALSE, TRUE, <<"Exif">>, "4:4:4"),
   JpegFile("P", TRUE, FALSE, NoExif, "4:2:0")}

\* What the encoder does when img.save is given no subsampling: libjpeg's default
EncoderDefaultSubsampling == "4:2:0"
\* Pillow's subsampling argument: 0 is 4:4:4, 1 is 4:2:2, 2 is 4:2:0
SubsamplingName(n) == CASE n = 0 -> "4:4:4" [] n = 1 -> "4:2:2" [] n = 2 -> "4:2:0"

\* img.save(path, 'JPEG', **params): the properties of the stream written.
\* Only what the call passes reaches the encoder; what it leaves out takes the
\* encoder's default (not progressive, not optimized, no EXIF segment).
JpegSave(img, params) ==
  [kind        |-> "image",
   mode        |-> img.mode,
   progressive |-> IF "progressive" \in DOMAIN params THEN params.progressive ELSE FALSE,
   optimized   |-> IF "optimize" \in DOMAIN params THEN params.optimize ELSE FALSE,
   exif        |-> IF "exif" \in DOMAIN params THEN params.exif ELSE NoExif,
   subsampling |-> IF "subsampling" \in DOMAIN params
                     THEN SubsamplingName(params.subsampling)
                     ELSE EncoderDefaultSubsampling]

\* img.convert('RGB') when img.mode != 'RGB'
ToRGB(img) == IF img.mode # "RGB" THEN [img EXCEPT !.mode = "RGB"] ELSE img

\* a save call that keeps the source's coding and EXIF block
ConvertSaveParamsKeep(img) ==
  [quality |-> 85, optimize |-> img.optimized, progressive |-> img.progressive,
   exif |-> img.exif]
\* convert_to_baseline.py line 29
ConvertSaveParams(img) ==
  [quality |-> 85, optimize |-> FALSE, progressive |-> FALSE, exif |-> NoExif]

\* save_baseline_jpeg's img.save arguments
BaselineSaveParams ==
  [quality |-> 80, optimize |-> FALSE, progressive |-> FALSE, subsampling |-> 0]

NormInit ==
  /\ npc \in {"create", "loop"}
  /\ files \in [NormIdx -> FileKinds]
  /\ nidx = 1
  /\ written = <<>>
  /\ handled = {}
  /\ nexit = NoStatus
  /\ chroma_mode \in ChromaModes
  /\ EmbedIdle /\ MainIdle /\ GenIdle

\* create_baseline_jpegs.py: save_baseline_jpeg(img, filename) for the next of
\* the four images. The script hands it 'RGB' images; the function takes any.
SaveBaselineJpeg ==
  /\ npc = "create" /\ nidx <= Len(NormImages)
  /\ \E m \in Modes :
       LET img  == ToRGB([mode |-> m])
           file == JpegSave(img, BaselineSaveParams)
       IN /\ files' = [files EXCEPT ![nidx] = file]
          /\ written' = Append(written, [path |-> "save_baseline_jpeg", idx |-> nidx,
                                       src |-> [mode |-> m], file |-> file])
  /\ nidx' = nidx + 1
  /\ UNCHANGED <<npc, handled, nexit, chroma_mode, embedVars, mainVars, genVars>>

\* the generator script is done; convert_to_baseline.py runs over its output
CreateDone ==
  /\ npc = "create" /\ nidx > Len(NormImages)
  /\ npc' = "loop"
  /\ nidx' = 1
  /\ UNCHANGED <<files, written, handled, nexit, chroma_mode, embedVars, mainVars, genVars>>

\* convert_to_baseline.py: one iteration of `for img_name in images`
ConvertIter ==
  /\ npc = "loop" /\ nidx <= Len(NormImages)
  /\ LET f == files[nidx] IN
     IF f.kind = "missing"
       THEN \* not os.path.exists: warn and continue
            /\ handled' = handled \cup {nidx}
            /\ nidx' = nidx + 1
            /\ UNCHANGED <<npc, files, written, nexit>>
     ELSE IF f.kind \in {"undecodable", "truncated"}
       THEN \* Image.open / convert / save raises; nothing catches it
            /\ npc' = "crashed"
            /\ nexit' = "failure"
            /\ UNCHANGED <<files, written, handled, nidx>>
       ELSE LET img  == ToRGB(f)
                file == JpegSave(img, ConvertSaveParams(img))
            IN /\ files' = [files EXCEPT ![nidx] = file]
               /\ written' = Append(written, [path |-> "convert_to_baseline", idx |-> nidx,
                                            src |-> f, file |-> file])
               /\ handled' = handled \cup {nidx}
               /\ nidx' = nidx + 1
               /\ UNCHANGED <<npc, nexit>>
  /\ UNCHANGED <<chroma_mode, embedVars, mainVars, genVars>>

\* the loop is over: the final print, and the interpreter exits with 0
ConvertExit ==
  /\ npc = "loop" /\ nidx > Len(NormImages)
  /\ npc' = "exited"
  /\ nexit' = "success"
  /\ UNCHANGED <<files, nidx, written, handled, chroma_mode, embedVars, mainVars, genVars>>

NormNext == SaveBaselineJpeg \/ CreateDone \/ ConvertIter \/ ConvertExit

SpecNorm == NormInit /\ [][NormNext]_vars

\* C4: an image that exists but cannot be decoded is skipped, and every later
\* image of the list is still handled before the run ends.
C4_ContinuesAfterUnsupported ==
  npc \in {"exited", "crashed"} =>
    \A i \in NormIdx :
      files[i].kind \in {"undecodable", "truncated"} =>
        \A j \in (i + 1)..Len(NormImages) : j \in handled

C7_ChromaModeHonoured ==
  \A k \in 1..Len(written) :
    /\ chroma_mode = "4:4:4" => written[k].file.subsampling # "4:2:0"
    /\ chroma_mode = "4:2:0" => written[k].file.subsampling # "4:4:4"

(***************************************************************************)
(* create_baseline_jpegs.py: the arithmetic of create_gradient_image.      *)
(* Python's float is the IEEE-754 binary64 format: every operation gives   *)
(* the exact result rounded to a 53-bit significand, ties to even.  A      *)
(* non-negative value is [m, e]: the bits m (most significant first) read  *)
(* as a natural number, times 2^e.  The magnitudes here stay far from the  *)
(* format's exponent limits.                                               *)
(***************************************************************************)

Precision == 53

Front(s) == SubSeq(s, 1, Len(s) - 1)
Last(s) == s[Len(s)]
Zeros(n) == [j \in 1..n |-> 0]

RECURSIVE Strip(_)
Strip(m) == IF m # <<>> /\ m[1] = 0 THEN Strip(Tail(m)) ELSE m

RECURSIVE NatBits(_)
NatBits(n) == IF n = 0 THEN <<>> ELSE NatBits(n \div 2) \o <<n % 2>>

RECURSIVE BitsNat(_)
BitsNat(m) == IF m = <<>> THEN 0 ELSE 2 * BitsNat(Front(m)) + Last(m)

RECURSIVE Inc(_)
Inc(m) == IF m = <<>> THEN <<1>>
          ELSE IF Last(m) = 0 THEN Front(m) \o <<1>>
          ELSE Inc(Front(m)) \o <<0>>

\* m * d + c over the low i bits of m, for a small natural d
RECURSIVE MulCarry(_, _, _, _)
MulCarry(m, d, i, c) ==
  IF i = 0 THEN NatBits(c)
  ELSE LET t == m[i] * d + c
       IN IF t % 2 = 0 THEN MulCarry(m, d, i - 1, t \div 2) \o <<0>>
          ELSE MulCarry(m, d, i - 1, t \div 2) \o <<1>>

PadTo(m, n) == Zeros(n - Len(m)) \o m

\* a + b + c over the low i bits of two sequences of equal length
RECURSIVE AddCarry(_, _, _, _)
AddCarry(a, b, i, c) ==
  IF i = 0 THEN NatBits(c)
  ELSE LET t == a[i] + b[i] + c
       IN IF t % 2 = 0 THEN AddCarry(a, b, i - 1, t \div 2) \o <<0>>
          ELSE AddCarry(a, b, i - 1, t \div 2) \o <<1>>

\* a - b - c over the low i bits of two sequences of equal length, a >= b
RECURSIVE SubBorrow(_, _, _, _)
SubBorrow(a, b, i, c) ==
  IF i = 0 THEN <<>>
  ELSE LET t == a[i] - b[i] - c
       IN IF t < 0 THEN SubBorrow(a, b, i - 1, 1) \o <<t + 2>>
          ELSE SubBorrow(a, b, i - 1, 0) \o <<t>>

\* the exact value x rounded to the nearest double, ties to even
RoundNearestEven(x) ==
  LET m == Strip(x.m) IN
  IF Len(m) <= Precision THEN [m |-> m, e |-> x.e]
  ELSE LET keep   == SubSeq(m, 1, Precision)
           rest   == SubSeq(m, Precision + 1, Len(m))
           sticky == \E j \in 2..Len(rest) : rest[j] = 1
           up     == rest[1] = 1 /\ (sticky \/ keep[Precision] = 1)
       IN [m |-> IF up THEN Inc(keep) ELSE keep, e |-> x.e + Len(rest)]

\* the quotient's bits by long division: Precision + 1 significant bits, then
\* one bit that says whether anything is left
RECURSIVE DivBits(_, _, _, _)
DivBits(r, n, acc, nfrac) ==
  IF r = 0 \/ Len(Strip(acc)) > Precision
    THEN [m |-> acc \o <<IF r # 0 THEN 1 ELSE 0>>, e |-> -(nfrac + 1)]
    ELSE DivBits((2 * r) % n, n, acc \o <<(2 * r) \div n>>, nfrac + 1)

\* k / n for naturals k, n > 0: true division of two ints, correctly rounded
FDiv(k, n) == RoundNearestEven(DivBits(k % n, n, NatBits(k \div n), 0))

\* d * f for a natural d (the int is converted exactly)
FMul(d, f) == RoundNearestEven([m |-> MulCarry(f.m, d, Len(f.m), 0), e |-> f.e])

\* c + f, or c - f when neg (c a natural, c >= f when neg)
FAddInt(c, f, neg) ==
  LET E  == IF f.e < 0 THEN f.e ELSE 0
      cb == NatBits(c) \o Zeros(-E)
      fb == f.m \o Zeros(f.e - E)
      n  == IF Len(cb) > Len(fb) THEN Len(cb) ELSE Len(fb)
      a  == PadTo(cb, n)
      b  == PadTo(fb, n)
  IN RoundNearestEven([m |-> IF neg THEN SubBorrow(a, b, n, 0) ELSE AddCarry(a, b, n, 0),
                       e |-> E])

\* int(f): truncation
FTrunc(f) ==
  LET m == Strip(f.m) IN
  IF f.e >= 0 THEN BitsNat(m \o Zeros(f.e))
  ELSE IF Len(m) + f.e <= 0 THEN 0
  ELSE BitsNat(SubSeq(m, 1, Len(m) + f.e))

\* int(c1 + (c2 - c1) * ratio) with ratio = k / n
GradientChannel(c1, c2, k, n) ==
  LET ratio == FDiv(k, n)
      d     == c2 - c1
      prod  == FMul(IF d < 0 THEN -d ELSE d, ratio)
  IN FTrunc(FAddInt(c1, prod, d < 0))

(***************************************************************************)
(* create_baseline_jpegs.py: create_gradient_image, create_pattern_image   *)
(***************************************************************************)

\* Bounds of the generators' inputs
MaxGradWidth == 10
MaxGradHeight == 2
MaxPatWidth == 41
MaxPatHeight == 41
MaxColors == 3

\* Image.new('RGB', (width, height)): Pillow refuses a negative size with a
\* ValueError and accepts 0
SizeRefused(w, h) == w < 0 \/ h < 0
Raised(name) == [status |-> "raised", error |-> name]
Returned(w, h, px) == [status |-> "returned", width |-> w, height |-> h, pixels |-> px]
Coords(w, h) == (0..(w - 1)) \X (0..(h - 1))

\* the body of the two loops of create_gradient_image
GradientPixel(w, h, c1, c2, dir, x, y) ==
  LET k == IF dir = "horizontal" THEN x ELSE y
      n == IF dir = "horizontal" THEN w ELSE h
  IN [ch \in 1..3 |-> GradientChannel(c1[ch], c2[ch], k, n)]

create_gradient_image(w, h, c1, c2, dir) ==
  IF SizeRefused(w, h) THEN Raised("ValueError")
  ELSE Returned(w, h, [p \in Coords(w, h) |-> GradientPixel(w, h, c1, c2, dir, p[1], p[2])])

TileSize == 40

\* a pattern that only looks at the column of tiles
PatternIndexColumn(x, y, n) == (x \div TileSize) % n
\* idx = ((x // 40) + (y // 40)) % len(colors)
PatternIndex(x, y, n) == ((x \div TileSize) + (y \div TileSize)) % n

create_pattern_image(w, h, cs) ==
  IF SizeRefused(w, h) THEN Raised("ValueError")
  ELSE Returned(w, h, [p \in Coords(w, h) |-> cs[PatternIndex(p[1], p[2], Len(cs)) + 1]])

GradColors == {<<0, 0, 0>>, <<90, 255, 17>>, <<135, 206, 235>>, <<25, 25, 112>>}
Directions == {"horizontal", "vertical"}
Palette == <<<<70, 130, 180>>, <<255, 165, 0>>, <<50, 205, 50>>, <<220, 20, 60>>>>

GradientInit ==
  /\ cpc = "start"
  /\ width \in -1..MaxGradWidth
  /\ height \in -1..MaxGradHeight
  /\ color1 \in GradColors
  /\ color2 \in GradColors
  /\ direction \in Directions
  /\ colors = <<>>
  /\ result = <<>>
  /\ EmbedIdle /\ MainIdle /\ NormIdle

CreateGradientImage ==
  /\ cpc = "start"
  /\ result' = create_gradient_image(width, height, color1, color2, direction)
  /\ cpc' = "done"
  /\ UNCHANGED <<width, height, color1, color2, direction, colors,
                 embedVars, mainVars, normVars>>

GradientNext == CreateGradientImage

SpecGradient == GradientInit /\ [][GradientNext]_vars

PatternInit ==
  /\ cpc = "start"
  /\ width \in -1..MaxPatWidth
  /\ height \in -1..MaxPatHeight
  /\ \E n \in 1..MaxColors : colors = SubSeq(Palette, 1, Min(n, Len(Palette)))
  /\ color1 = <<>> /\ color2 = <<>> /\ direction = ""
  /\ result = <<>>
  /\ EmbedIdle /\ MainIdle /\ NormIdle

CreatePatternImage ==
  /\ cpc = "start"
  /\ result' = create_pattern_image(width, height, colors)
  /\ cpc' = "done"
  /\ UNCHANGED <<width, height, color1, color2, direction, colors,
                 embedVars, mainVars, normVars>>

PatternNext == CreatePatternImage

SpecPattern == PatternInit /\ [][PatternNext]_vars

\* C8: in the image create_pattern_image returns, every pixel of the tile in
\* column tx and row ty of the 40x40 grid has the colour
\* colors[(tx + ty) mod len(colors)]: one colour per tile, starting with the
\* first colour at the origin, and the next colour of the list (cyclically)
\* one tile further along either axis.
C8_TilePattern ==
  (cpc = "done" /\ width > 0 /\ height > 0) =>
    /\ result.status = "returned"
    /\ DOMAIN result.pixels = Coords(width, height)
    /\ \A tx \in 0..((width - 1) \div 40), ty \in 0..((height - 1) \div 40) :
         \A x \in (40 * tx)..Min(40 * tx + 39, width - 1),
            y \in (40 * ty)..Min(40 * ty + 39, height - 1) :
           /\ result.pixels[<<x, y>>] = colors[((tx + ty) % Len(colors)) + 1]
           /\ result.pixels[<<x, y>>] = result.pixels[<<40 * tx, 40 * ty>>]
    /\ \A p \in Coords(width, height) :
         LET here == CHOOSE i \in 1..Len(colors) : colors[i] = result.pixels[p]
             next == (here % Len(colors)) + 1
         IN /\ p[1] + 40 < width => result.pixels[<<p[1] + 40, p[2]>>] = colors[next]
            /\ p[2] + 40 < height => result.pixels[<<p[1], p[2] + 40>>] = colors[next]

C8_Witness ==
  /\ cpc = "done" /\ width > 40 /\ height > 40 /\ Len(colors) = 2
  /\ result.pixels[<<0, 0>>] = colors[1]
  /\ result.pixels[<<39, 39>>] = result.pixels[<<0, 0>>]
  /\ result.pixels[<<40, 0>>] = colors[2]
  /\ result.pixels[<<40, 40>>] = colors[1]

\* the exact interpolated value, floored: floor((c1 * n + (c2 - c1) * k) / n)
ExactChannel(c1, c2, k, n) == (c1 * n + (c2 - c1) * k) \div n

\* C9: every channel of every pixel of the gradient is
\* floor((c1 * n + (c2 - c1) * k) / n), k the coordinate along the chosen
\* axis and n that axis's length, and lies in 0..255.
C9_GradientExactInterpolation ==
  (cpc = "done" /\ width > 0 /\ height > 0) =>
    /\ result.status = "returned"
    /\ \A p \in Coords(width, height) : \A ch \in 1..3 :
         LET k == IF direction = "horizontal" THEN p[1] ELSE p[2]
             n == IF direction = "horizontal" THEN width ELSE height
         IN /\ result.pixels[p][ch] = ExactChannel(color1[ch], color2[ch], k, n)
            /\ result.pixels[p][ch] \in 0..255

\* C10: a request with width <= 0 or height <= 0 fails and returns no image.
C10_InvalidDimensionsRejected ==
  (cpc = "done" /\ (width <= 0 \/ height <= 0)) => result.status = "raised"

====
